---- MODULE Spec2Model ----
(***************************************************************************)
(* The render pipeline of stencil: the two-pass engine (Stencil.Render),   *)
(* the module-hook store written by AddToModuleHook and read by            *)
(* GetModuleHook, and the lockfile produced by GenerateLockfile.           *)
(*                                                                         *)
(* Strings that are paths (module names, hook names, hook keys) are        *)
(* sequences of their "/"-separated segments: "../m2/h" is                 *)
(* <<"..", "m2", "h">>.                                                     *)
(***************************************************************************)
EXTENDS Integers, Sequences, FiniteSets, TLC

\* ------------------------------------------------------------------ bounds

\* Templates discovered by getTemplates.
NumTemplates == 2

\* Template-function calls the templates make in one pass, all together.
MaxCalls == 2

\* Calls in the fixed body of a template of SpecShuffle.
MaxScriptLen == 1

\* Files the templates handed to GenerateLockfile hold, all together.
MaxLockFiles == 2

\* Distinct output file names.
MaxName == 2

\* Released versions of the remote module, numbered in increasing order.
MaxVersion == 3

\* Entries in the modules list of the service manifest.
MaxTop == 2

\* Rendered templates one template of the Builder returns.
MaxOutputs == 2

\* Processors registered with the Runner.
MaxProcessors == 2

\* ------------------------------------------------------------------ inputs

Templates == 1 .. NumTemplates

\* s.modules, in the order handed to NewStencil.
Modules == << <<"m1">>, <<"m2">> >>

ModuleNames == {Modules[i] : i \in 1 .. Len(Modules)}

\* The module a template belongs to (Template.Module.Name).
TemplateModule(t) == Modules[((t - 1) % Len(Modules)) + 1]

\* Values a template may put in a hook list: the string "a", and the
\* complex128 constants 1i and 2i, which hashstructure cannot hash.
HookValues == {"a", "1i", "2i"}

\* Hook names templates pass: "h" and "../m2/h".
HookNames == {<<"h">>, <<"..", "m2", "h">>}

SeqsUpTo(S, n) == UNION {[1 .. k -> S] : k \in 0 .. n}

\* The third argument of AddToModuleHook: nil, a non-slice value, or a slice.
Unset == [kind |-> "unset", elems |-> <<>>]

Scalar == [kind |-> "scalar", elems |-> <<>>]

Slice(elems) == [kind |-> "slice", elems |-> elems]

\* The lists templates hand to AddToModuleHook: two lists of one value, of
\* equal hash, and a list of two values that sorting reorders.
DataLists == {<<"1i">>, <<"2i">>, <<"a", "2i">>}

DataArgs == {Unset, Scalar} \cup {Slice(e) : e \in DataLists}

\* One call of a template function.
AddOp(m, n, d) == [op |-> "add", module |-> m, name |-> n, data |-> d]

GetOp(n) == [op |-> "get", module |-> <<>>, name |-> n, data |-> Unset]

AddOps == {AddOp(m, <<"h">>, d) : m \in ModuleNames, d \in DataArgs}

GetOps == {GetOp(n) : n \in HookNames}

Ops == AddOps \cup GetOps

\* A template whose calls depend on what it reads, so that any call may
\* come next, as opposed to one with a fixed body (a sequence of calls).
Free == <<[op |-> "free", module |-> <<>>, name |-> <<>>, data |-> Unset]>>

Scripts == SeqsUpTo(Ops, MaxScriptLen)

\* ------------------------------------------------------------------ paths

RECURSIVE CleanInto(_, _)
CleanInto(stack, segs) ==
    IF segs = <<>> THEN stack
    ELSE LET s == Head(segs)
             rest == Tail(segs)
         IN  IF s = "." \/ s = ""
             THEN CleanInto(stack, rest)
             ELSE IF s = ".."
             THEN IF stack # <<>> /\ stack[Len(stack)] # ".."
                  THEN CleanInto(SubSeq(stack, 1, Len(stack) - 1), rest)
                  ELSE CleanInto(Append(stack, ".."), rest)
             ELSE CleanInto(Append(stack, s), rest)

\* path.Clean of a relative path.
Clean(segs) ==
    LET c == CleanInto(<<>>, segs)
    IN  IF c = <<>> THEN <<".">> ELSE c

\* path.Join(module, name).
Join(module, name) == Clean(module \o name)

\* ------------------------------------------------------------------ hooks

\* hashstructure.Hash on the values it can hash: some number for the string
\* "a".
StructHash(v) == IF v = "a" THEN 7 ELSE 0

HashFails(v) == v \in {"1i", "2i"}

hashModuleHookValue(v) == IF HashFails(v) THEN 0 ELSE StructHash(v)

Less(x, y) == hashModuleHookValue(x) < hashModuleHookValue(y)

\* The sequence s without its element of index i.
Without(s, i) == SubSeq(s, 1, i - 1) \o SubSeq(s, i + 1, Len(s))

\* Every order of the elements of s.
RECURSIVE Orderings(_)
Orderings(s) ==
    IF s = <<>> THEN {<<>>}
    ELSE UNION {{<<s[i]>> \o r : r \in Orderings(Without(s, i))} : i \in DOMAIN s}

\* Sort leaving the values as they are.
Sort_Unsorted(values) == {values}

\* moduleHook.Sort: sort.Slice orders the values by Less and does not say
\* where it leaves elements neither of which is less than the other, so
\* every order of the values with no element before a lesser one can be the
\* result.
Sort(values) ==
    {p \in Orderings(values) :
        \A i \in DOMAIN p : \A j \in DOMAIN p : i < j => ~Less(p[j], p[i])}

\* sortModuleHooks: every hook list sorted; the stores it can leave.
sortModuleHooks(hooks) ==
    {h \in [DOMAIN hooks -> UNION {Sort(hooks[k]) : k \in DOMAIN hooks}] :
        \A k \in DOMAIN hooks : h[k] \in Sort(hooks[k])}

\* The hook list stored at k; the nil slice when k is absent.
HookAt(hooks, k) == IF k \in DOMAIN hooks THEN hooks[k] ELSE <<>>

\* AppendHook assigning where it should append.
AppendHook_Assign(hooks, k, elems) ==
    [x \in DOMAIN hooks \cup {k} |-> IF x = k THEN elems ELSE hooks[x]]

\* "if set, append, otherwise assign".
AppendHook(hooks, k, elems) ==
    [x \in DOMAIN hooks \cup {k} |->
        IF x = k THEN HookAt(hooks, k) \o elems ELSE hooks[x]]

\* DataError without the check of the kind.
DataError_OnlyUnset(d) == d.kind = "unset"

\* Whether AddToModuleHook rejects its data argument.
DataError(d) == d.kind = "unset" \/ d.kind # "slice"

\* ------------------------------------------------------------------ files

\* A File of a template: its path (the template's path without ".tpl", named
\* here by the template), its contents, and the pass that created it.
NewFile(t, pass) == [path |-> t, contents |-> <<>>, pass |-> pass]

\* Template.Render before executing the template: the template's list of
\* files grows by the file this render emits.
FilesAtRenderStart(fs, t, pass) == Append(fs, NewFile(t, pass))

\* Template.Render after executing the template: the file this render emitted
\* receives the template's output.
FilesAtRenderEnd(fs, out) == [fs EXCEPT ![Len(fs)].contents = out]

\* FilesAfterFirstPass keeping the files.
FilesAfterFirstPass_Keep(fs) == fs

\* "Remove the files, we're just using this to populate the shared data."
FilesAfterFirstPass(fs) == <<>>

\* --------------------------------------------------- directory replacements

\* os.PathSeparator.
PathSeparator == "/"

\* The error of renderDirReplacement for an output holding the separator.
SeparatorError == "contains path separator in output"

\* The directories a manifest replaces.
DirSources == {"testdata", "testdata/replacement"}

\* The expressions a manifest replaces them by.
DirExprs == {"bob", "{{ stencil.Arg \"x\" }}", "b/c", "{{ fail }}"}

\* What rendering an expression gives, with the argument x set to "d": an
\* error, or the output as the sequence of its characters.
RenderExpr(template) ==
    CASE template = "bob" -> [error |-> FALSE, out |-> <<"b", "o", "b">>]
      [] template = "{{ stencil.Arg \"x\" }}" -> [error |-> FALSE, out |-> <<"d">>]
      [] template = "b/c" -> [error |-> FALSE, out |-> <<"b", "/", "c">>]
      [] OTHER -> [error |-> TRUE, out |-> <<>>]

\* strings.Contains(nn, c) for a string c of one character.
Contains(nn, c) == \E i \in DOMAIN nn : nn[i] = c

\* IllegalReplacement that looks at the first character only.
IllegalReplacement_Leading(nn) == Len(nn) > 0 /\ nn[1] = PathSeparator

\* Whether renderDirReplacement rejects the output nn.
IllegalReplacement(nn) == Contains(nn, PathSeparator)

\* renderDirReplacement(template): the error it returns ("" when none) and
\* the rendered name.
renderDirReplacement(template) ==
    LET r == RenderExpr(template)
    IN  IF r.error THEN [err |-> "dirReplace render", nn |-> <<>>]
        ELSE IF IllegalReplacement(r.out) THEN [err |-> SeparatorError, nn |-> <<>>]
        ELSE [err |-> "", nn |-> r.out]

\* The DirReplacements a manifest may declare.
DirMaps == UNION {[S -> DirExprs] : S \in SUBSET DirSources}

\* No replacements.
NoReps == [x \in {} |-> ""]

\* The manifests of TestDirReplacementRendering: the first module replaces
\* two directories, the others none.
TestDirReplacements ==
    [i \in 1 .. Len(Modules) |->
        IF i = 1
        THEN [x \in DirSources |->
                 IF x = "testdata" THEN "bob" ELSE "{{ stencil.Arg \"x\" }}"]
        ELSE NoReps]

\* StoreDirReplacements that keeps nothing.
StoreDirReplacements_Drop(st, i, r) == st

\* m.StoreDirReplacements(reps) for the module of index i.
StoreDirReplacements(st, i, r) == [st EXCEPT ![i] = r]

\* ------------------------------------------------- Builder: existing files

\* A line of a file: either text, or a comment prefix followed by
\* Command(Argument).
Text(s) == [prefix |-> "", cmd |-> "", arg |-> "", text |-> s]

Marker(p, c, a) == [prefix |-> p, cmd |-> c, arg |-> a, text |-> ""]

\* The comment prefixes blockPattern recognises.
CommentPrefixes == {"///", "###", "<!---"}

\* blockPattern.FindStringSubmatch(line): the whole match, the comment, the
\* command and its argument; nothing when the line does not match.
FindStringSubmatch(line) ==
    IF line.prefix \in CommentPrefixes /\ line.cmd # "" /\ line.arg # ""
    THEN <<line, line.prefix, line.cmd, line.arg>>
    ELSE <<>>

\* strings.ToLower on the commands of the model.
ToLower(s) ==
    CASE s = "Deviation" -> "deviation"
      [] s = "DEVIATION" -> "deviation"
      [] s = "Block" -> "block"
      [] s = "EndBlock" -> "endblock"
      [] OTHER -> s

\* strings.EqualFold.
EqualFold(s, t) == ToLower(s) = ToLower(t)

\* The templates vfs.Walk finds, in the order it visits them.
TemplatePaths == << <<"a", ".tpl">>, <<"b", ".sh", ".tpl">> >>

\* The pre-existing files the model places at the templates' paths.
ExistingFixtures ==
    { <<Text("u")>>,
      <<Text("u"), Text("v")>>,
      <<Marker("///", "Block", "x"), Text("u"), Marker("///", "EndBlock", "x")>>,
      <<Marker("###", "Block", "x"), Text("v"), Text("u"), Marker("###", "EndBlock", "x")>>,
      <<Marker("<!---", "Block", "y"), Text("v"), Marker("<!---", "EndBlock", "y")>>,
      <<Marker("///", "Block", "x"), Marker("///", "Block", "y")>>,
      <<Text("u"), Marker("///", "EndBlock", "x")>>,
      <<Marker("///", "Block", "x"), Text("u"), Marker("///", "EndBlock", "y")>>,
      <<Marker("///", "Block", "x"), Text("u")>>,
      <<Marker("///", "deviation", "r")>>,
      <<Text("u"), Marker("###", "Deviation", "r")>>,
      <<Marker("<!---", "deviation", "r"), Marker("///", "EndBlock", "x")>>,
      <<Marker("///", "Block", "x"), Text("u"), Marker("///", "EndBlock", "x"),
        Marker("///", "deviation", "r")>>,
      <<Marker("///", "Other", "x"), Text("u")>> }

\* What the disk holds at a path: the lines of a file that was there before,
\* or the output k of template t that writeFile put there with mode perms.
OldFile(f) == [lines |-> f, t |-> <<>>, k |-> 0, perms |-> "", by |-> <<>>]

NewContent(t, k, perms, by) == [lines |-> <<>>, t |-> t, k |-> k, perms |-> perms, by |-> by]

\* The file systems GenerateFiles may start from: each template path holds one
\* of the files, or nothing.
Disks ==
    UNION {[S -> {OldFile(f) : f \in ExistingFixtures}] : S \in SUBSET {TemplatePaths[i] : i \in DOMAIN TemplatePaths}}

\* os.Open succeeding.
Exists(d, p) == p \in DOMAIN d

\* ---------------------------------------------------- Builder: block scan

NoBuilderError == [kind |-> "", file |-> <<>>, line |-> 0]

\* The error without the line.
BuilderError_NoLine(k, f, i) == [kind |-> k, file |-> f, line |-> 0]

\* An error of WriteTemplate: "..., at <file>:<i>".
BuilderError(k, f, i) == [kind |-> k, file |-> f, line |-> i]

\* "if ok, args[curBlockName] = curVal + \n + line, else args[curBlockName] =
\* line": a value is the lines it joins.
AddLine(a, name, line) ==
    [n \in DOMAIN a \cup {name} |->
        IF n = name
        THEN IF name \in DOMAIN a THEN Append(a[name], line) ELSE <<line>>
        ELSE a[n]]

\* The scanner loop of WriteTemplate from the line of index i (counted from
\* 0, as the loop counts) with curBlockName = cur: the error it returns, and
\* args as the loop leaves it.
RECURSIVE ScanBlocks(_, _, _, _, _)
ScanBlocks(f, lines, i, cur, a) ==
    IF i >= Len(lines) THEN [err |-> NoBuilderError, args |-> a]
    ELSE LET line == lines[i + 1]
             matches == FindStringSubmatch(line)
         IN  IF Len(matches) = 4 /\ matches[3] = "Block"
             THEN IF cur # ""
                  THEN [err |-> BuilderError("nested Block", f, i), args |-> a]
                  ELSE ScanBlocks(f, lines, i + 1, matches[4], a)
             ELSE IF Len(matches) = 4 /\ matches[3] = "EndBlock"
             THEN IF matches[4] # cur
                  THEN [err |-> BuilderError("mismatched EndBlock", f, i), args |-> a]
                  ELSE IF cur = ""
                  THEN [err |-> BuilderError("EndBlock outside block", f, i), args |-> a]
                  ELSE ScanBlocks(f, lines, i + 1, "", a)
             ELSE IF cur = ""
             THEN ScanBlocks(f, lines, i + 1, cur, a)
             ELSE ScanBlocks(f, lines, i + 1, cur, AddLine(a, cur, line))

\* HasDeviations: some line of the file is a deviation command.
HasDeviations(d, filePath) ==
    /\ Exists(d, filePath)
    /\ \E i \in DOMAIN d[filePath].lines :
          LET matches == FindStringSubmatch(d[filePath].lines[i])
          IN  Len(matches) >= 2 /\ EqualFold(matches[3], "deviation")

\* ------------------------------------------------------ processors: Runner

\* A *semver.Version: nil, or one version.
NilVersion == <<>>

Version(n) == <<n>>

\* semver.Version.GT.
GT(a, b) == a[1] > b[1]

\* A Processor by its Config.
Processor(name, exts, names, pre, post, gate) ==
    [Name |-> name, FileExtensions |-> exts, FileNames |-> names,
     IsPreCodegenProcessor |-> pre, IsPostCodegenProcessor |-> post,
     VersionGate |-> gate]

\* registeredProcessors as the package declares it.
registeredProcessors == <<>>

\* filepath.Ext and filepath.Base of a path of the model.
Ext(p) == IF Len(p) > 1 THEN p[Len(p)] ELSE ""

Base(p) == p

\* Whether New skips the processor: "if the previous version is greater than
\* the version gate, we skip this processor".
SkippedByGate(p, previousVersion) ==
    /\ p.VersionGate # NilVersion
    /\ previousVersion # NilVersion
    /\ GT(previousVersion, p.VersionGate)

\* The processors of ps, in order, that New registers under the file
\* extension or file name key.
RECURSIVE Registered(_, _, _, _)
Registered(ps, previousVersion, key, byName) ==
    IF ps = <<>> THEN <<>>
    ELSE LET p == Head(ps)
             rest == Registered(Tail(ps), previousVersion, key, byName)
         IN  IF ~SkippedByGate(p, previousVersion)
                /\ IF byName THEN key \in p.FileNames ELSE key \in p.FileExtensions
             THEN <<p>> \o rest
             ELSE rest

\* processors.New: the runner, its processors registered under their file
\* extensions and file names.
New(ps, previousVersion) ==
    [processors |-> ps,
     previousVersion |-> previousVersion,
     fileExts |-> [e \in UNION {ps[i].FileExtensions : i \in DOMAIN ps} |->
                      Registered(ps, previousVersion, e, FALSE)],
     fileNames |-> [n \in UNION {ps[i].FileNames : i \in DOMAIN ps} |->
                       Registered(ps, previousVersion, n, TRUE)]]

\* r.fileExts[ext] and r.fileNames[name]: the nil slice for an absent key.
Lookup(m, key) == IF key \in DOMAIN m THEN m[key] ELSE <<>>

\* A processors.File: its name and the processors that have processed it.
ProcFile(name) == [Name |-> name, by |-> <<>>]

\* The test process makes of a processor before it runs it.
Applies(p, preCodegen, postCodegen) ==
    /\ preCodegen => (p.IsPreCodegenProcessor /\ ~p.IsPostCodegenProcessor)
    /\ postCodegen => (p.IsPostCodegenProcessor /\ ~p.IsPreCodegenProcessor)

\* One loop of process over the processors ps: st holds existing, touched
\* and err; bad names the processor whose Process fails.
RECURSIVE RunAll(_, _, _, _, _)
RunAll(ps, preCodegen, postCodegen, bad, st) ==
    IF ps = <<>> \/ st.err # "" THEN st
    ELSE LET p == Head(ps)
         IN  IF ~Applies(p, preCodegen, postCodegen)
             THEN RunAll(Tail(ps), preCodegen, postCodegen, bad, st)
             ELSE RunAll(Tail(ps), preCodegen, postCodegen, bad,
                         [st EXCEPT !.touched = TRUE,
                                    !.invoked = Append(@, p.Name),
                                    !.err = IF p.Name = bad THEN "process" ELSE "",
                                    !.by = IF p.Name = bad THEN @ ELSE Append(@, p.Name)])

ErrNotProcessable == "not a processable file"

\* Runner.process.
process(r, preCodegen, postCodegen, existing, template, bad) ==
    LET from == IF preCodegen \/ postCodegen THEN existing.Name ELSE template.Name
        start == [touched |-> FALSE, invoked |-> <<>>, err |-> "", by |-> existing.by]
        exts == RunAll(Lookup(r.fileExts, Ext(from)), preCodegen, postCodegen, bad, start)
        names == RunAll(Lookup(r.fileNames, Base(from)), preCodegen, postCodegen, bad, exts)
    IN  IF names.err # "" THEN [file |-> <<>>, err |-> names.err, invoked |-> names.invoked]
        ELSE IF ~names.touched
        THEN [file |-> <<>>, err |-> ErrNotProcessable, invoked |-> names.invoked]
        ELSE [file |-> <<[Name |-> existing.Name, by |-> names.by]>>, err |-> "",
              invoked |-> names.invoked]

RunPreCodegen(r, existing, template, bad) == process(r, TRUE, FALSE, existing, template, bad)

RunDuringCodegen(r, existing, template, bad) == process(r, FALSE, FALSE, existing, template, bad)

RunPostCodegen(r, existing, template, bad) == process(r, FALSE, TRUE, existing, template, bad)

\* ------------------------------------------------ Builder: rendered outputs

\* A functions.RenderedTemplate as WriteTemplate reads it.
RenderedTemplate(path, skipped, deleted) ==
    [Path |-> path, Skipped |-> skipped, Deleted |-> deleted, Warnings |-> <<>>]

\* What a template may make of one output: leave it, give it a path, skip
\* it, delete it.
RenderedKinds ==
    { RenderedTemplate(<<>>, FALSE, FALSE),
      RenderedTemplate(<<"p", ".sh">>, FALSE, FALSE),
      RenderedTemplate(<<>>, TRUE, FALSE),
      RenderedTemplate(<<"p", ".sh">>, FALSE, TRUE) }

\* renderTemplate returns append(st.Files, srcRendered): the files the
\* template added, then its own.
RenderedLists(n) == UNION {[1 .. m -> RenderedKinds] : m \in 1 .. n}

\* strings.HasSuffix and strings.TrimSuffix on a path of the model.
HasSuffix(p, suffix) == p # <<>> /\ p[Len(p)] = suffix

TrimSuffix(p, suffix) == IF HasSuffix(p, suffix) THEN SubSeq(p, 1, Len(p) - 1) ELSE p

\* os.RemoveAll: nothing happens for the empty path or a path that is absent.
RemoveAll(d, p) == [q \in DOMAIN d \ {p} |-> d[q]]

\* Builder.writeFile.
writeFile(d, p, content) == [q \in DOMAIN d \cup {p} |-> IF q = p THEN content ELSE d[q]]

\* b.Processors: processors.New on the registered processors.
BuilderRunner == New(registeredProcessors, NilVersion)

\* The loop of WriteTemplate over the rendered templates, from the one of
\* index k: filePath is the variable of that name, st the disk, the warnings
\* and the destinations written so far.
RECURSIVE WriteRendered(_, _, _, _, _)
WriteRendered(t, outs, k, filePath, st) ==
    IF k > Len(outs) THEN st
    ELSE LET o == outs[k]
             w == st.warnings \o o.Warnings
         IN  IF o.Skipped
             THEN [st EXCEPT !.warnings = w]
             ELSE IF o.Deleted
             THEN [st EXCEPT !.warnings = w, !.disk = RemoveAll(@, o.Path)]
             ELSE LET fp == IF o.Path # <<>> THEN o.Path ELSE filePath
                      processed == IF Exists(st.disk, fp)
                                   THEN RunDuringCodegen(BuilderRunner, ProcFile(fp),
                                                         ProcFile(fp), "")
                                   ELSE [file |-> <<>>, err |-> ErrNotProcessable,
                                         invoked |-> <<>>]
                      perms == IF HasSuffix(fp, ".sh") THEN "0744" ELSE "0644"
                      dest == TrimSuffix(fp, ".tpl")
                      by == IF processed.err = "" THEN processed.file[1].by ELSE <<>>
                 IN  IF processed.err \notin {"", ErrNotProcessable}
                     THEN [st EXCEPT !.warnings = <<>>,
                                     !.err = BuilderError("failed to process file", fp, 0)]
                     ELSE WriteRendered(t, outs, k + 1, dest,
                              [st EXCEPT !.warnings = w,
                                         !.disk = writeFile(@, dest, NewContent(t, k, perms, by)),
                                         !.written = Append(@, [k |-> k, path |-> dest])])

\* ------------------------------------------------------------------ state

VARIABLES
    script,       \* template -> its body: Free, or a fixed sequence of calls
    phase,        \* where Render is
    err,          \* the error Render returned, "" when none
    tplfiles,     \* the shuffled templates
    idx,          \* index in tplfiles of the template of the current loop
    rendering,    \* whether t.Render of tplfiles[idx] is executing
    nops,         \* calls the executing template has made of its fixed body
    calls,        \* calls made in the current pass
    output,       \* what the executing template has written so far
    isFirstPass,  \* Stencil.isFirstPass
    moduleHooks,  \* sharedData.moduleHooks: key -> values
    files,        \* template -> Template.Files
    tpls,         \* the templates Render returns
    lastCall,     \* the latest template-function call and what it returned
    appended,     \* key -> the elements appended to it, in call order
    writtenFor,   \* module -> values handed to AddToModuleHook for it
    run,          \* 1, or 2 in the second of two invocations
    first,        \* what the first of two invocations produced
    lockTpls,     \* the argument of GenerateLockfile
    lockModules,  \* s.modules of the engine GenerateLockfile is called on
    lock,         \* the lockfile GenerateLockfile returned
    ctxDone,      \* whether the context given to Render is cancelled
    dirReplacements, \* module index -> Manifest.DirReplacements (source -> expression)
    dirIdx,       \* index in s.modules of the module calcDirReplacements is at
    reps,         \* calcDirReplacements: the map built for that module
    stored,       \* module index -> what StoreDirReplacements was given
    dirRenders,   \* <<module index, source>> -> number of times its expression was rendered
    lastDir,      \* the latest renderDirReplacement and what it returned
    renders,      \* template -> how often t.Render was entered and has returned
    top,          \* the modules list of the service manifest
    manifests,    \* module name -> the modules list of its manifest
    queue,        \* the resolver's work queue
    wants,        \* module name -> the constraints accumulated for it, with provenance
    resolved,     \* the modules resolved so far, then what GetModulesForService returns
    rphase,       \* where GetModulesForService is
    rerr,         \* the error GetModulesForService returned
    disk0,        \* path -> the file there when GenerateFiles was called
    disk,         \* path -> the file there now
    args,         \* the map GenerateFiles hands to every WriteTemplate
    widx,         \* index in TemplatePaths of the template the walk is at
    werr,         \* the error GenerateFiles returned
    warnings,     \* the warnings GenerateFiles collected
    wcalls,       \* the WriteTemplate calls made, each with what it did
    registered,   \* registeredProcessors
    previousVersion, \* the version New is given
    runner,       \* the Runner New returned
    processed     \* the latest call of Runner.process and its result

vars == <<script, phase, err, tplfiles, idx, rendering, nops, calls, output,
          isFirstPass, moduleHooks, files, tpls, lastCall, appended,
          writtenFor, run, first, lockTpls, lockModules, lock, ctxDone,
          dirReplacements, dirIdx, reps, stored, dirRenders, lastDir, renders,
          top, manifests, queue, wants, resolved, rphase, rerr,
          disk0, disk, args, widx, werr, warnings, wcalls,
          registered, previousVersion, runner, processed>>

renderVars == <<phase, err, tplfiles, idx, rendering, nops, calls, output,
                isFirstPass, moduleHooks, files, tpls, lastCall, appended,
                writtenFor, ctxDone, dirReplacements, dirIdx, reps, stored,
                dirRenders, lastDir, renders>>

\* What GetModulesForService reads and writes.
resolveVars == <<top, manifests, queue, wants, resolved, rphase, rerr>>

\* What calcDirReplacements reads and writes.
dirVars == <<dirReplacements, dirIdx, reps, stored, dirRenders, lastDir>>

lockVars == <<lockTpls, lockModules, lock>>

\* What GenerateFiles reads and writes.
builderVars == <<disk0, disk, args, widx, werr, warnings, wcalls>>

\* What the Runner reads and writes.
procVars == <<registered, previousVersion, runner, processed>>

codegenVars == <<builderVars, procVars>>

Perms(S) == {p \in [1 .. Cardinality(S) -> S] : \A x \in S : \E i \in DOMAIN p : p[i] = x}

EmptyMap == [k \in {} |-> <<>>]

NoCall ==
    [op |-> [op |-> "none", module |-> <<>>, name |-> <<>>, data |-> Unset],
     caller |-> <<>>, firstPass |-> TRUE, key |-> <<>>, ret |-> <<>>,
     error |-> FALSE]

NoRun == [valid |-> FALSE, tplfiles |-> <<>>, moduleHooks |-> EmptyMap,
          files |-> [t \in Templates |-> <<>>]]

NoLock == [done |-> FALSE, Files |-> <<>>, Modules |-> <<>>]

\* No error of GetModulesForService.
NoError == [kind |-> "", module |-> "", chain |-> <<>>]

\* GetModulesForService has not been called: no manifest is given.
ResolverIdle ==
    /\ top = <<>>
    /\ manifests = [n \in {} |-> <<>>]
    /\ queue = <<>>
    /\ wants = [n \in {} |-> <<>>]
    /\ resolved = <<>>
    /\ rphase = "new"
    /\ rerr = NoError

\* No WriteTemplate call.
NoWrite == [path |-> <<>>, received |-> <<>>, outs |-> <<>>, written |-> <<>>,
            warnings |-> <<>>, err |-> NoBuilderError]

\* No result of Runner.process.
NoProcess == [stage |-> "", existing |-> <<>>, template |-> <<>>,
              file |-> <<>>, err |-> "", invoked |-> <<>>]

\* GenerateFiles has not been called and no Runner was made.
CodegenIdle ==
    /\ disk0 = EmptyMap
    /\ disk = EmptyMap
    /\ args = EmptyMap
    /\ widx = 0
    /\ werr = NoBuilderError
    /\ warnings = <<>>
    /\ wcalls = <<>>
    /\ registered = <<>>
    /\ previousVersion = NilVersion
    /\ runner = <<>>
    /\ processed = NoProcess

NoDir == [module |-> 0, src |-> "", template |-> "", out |-> <<>>, err |-> ""]

NoRenders == [t \in Templates |-> [started |-> 0, finished |-> 0]]

\* The state of calcDirReplacements before it has been called.
NoDirReplacementsYet ==
    /\ dirIdx = 0
    /\ reps = NoReps
    /\ stored = [i \in 1 .. Len(Modules) |-> NoReps]
    /\ dirRenders = [k \in (1 .. Len(Modules)) \X DirSources |-> 0]
    /\ lastDir = NoDir

\* NewStencil, and the templates before any render.
NewStencil ==
    /\ phase = "new"
    /\ err = ""
    /\ tplfiles = <<>>
    /\ idx = 0
    /\ rendering = FALSE
    /\ nops = 0
    /\ calls = 0
    /\ output = <<>>
    /\ isFirstPass = TRUE
    /\ moduleHooks = EmptyMap
    /\ files = [t \in Templates |-> <<>>]
    /\ tpls = <<>>
    /\ lastCall = NoCall
    /\ appended = EmptyMap
    /\ writtenFor = [m \in ModuleNames |-> {}]
    /\ ctxDone = FALSE
    /\ NoDirReplacementsYet
    /\ renders = NoRenders

Init ==
    /\ NewStencil
    /\ script = [t \in Templates |-> Free]
    /\ run = 1
    /\ first = NoRun
    /\ lockTpls = <<>>
    /\ lockModules = Modules
    /\ lock = NoLock
    /\ dirReplacements = TestDirReplacements
    /\ ResolverIdle
    /\ CodegenIdle

Current == tplfiles[idx]

InLoop == phase \in {"pass1", "pass2"} /\ idx <= Len(tplfiles)

Pass == IF phase = "pass1" THEN 1 ELSE 2

\* The log with elems added to what it holds for key k.
Logged(log, k, elems) ==
    [x \in DOMAIN log \cup {k} |->
        IF x = k THEN (IF k \in DOMAIN log THEN log[k] ELSE <<>>) \o elems
        ELSE log[x]]

\* TemplatesOnError that returns the templates rendered so far.
TemplatesOnError_Partial(rendered) == rendered

\* The templates Render returns with an error: nil.
TemplatesOnError(rendered) == <<>>

\* Render returns an error.
Fail(e) ==
    /\ phase' = "failed"
    /\ err' = e
    /\ rendering' = FALSE
    /\ tpls' = TemplatesOnError(tpls)

\* getTemplates: the discovered templates, shuffled.
GetTemplates ==
    /\ phase = "new"
    /\ \E p \in Perms(Templates) : tplfiles' = p
    /\ phase' = "parse"
    /\ UNCHANGED <<script, err, idx, rendering, nops, calls, output, isFirstPass,
                   moduleHooks, files, tpls, lastCall, appended, writtenFor,
                   run, first, lockVars, resolveVars, codegenVars, ctxDone, dirVars, renders>>

\* Render, the parse loop: a template that does not parse ends Render.
ParseTemplates ==
    /\ phase = "parse"
    /\ \/ /\ phase' = "pass1"
          /\ idx' = 1
          /\ UNCHANGED <<err, rendering, tpls>>
       \/ /\ Fail("parse")
          /\ UNCHANGED idx
    /\ UNCHANGED <<script, tplfiles, nops, calls, output, isFirstPass, moduleHooks,
                   files, lastCall, appended, writtenFor, run, first, lockVars, resolveVars, codegenVars, ctxDone, dirVars, renders>>

\* t.Render(s, vals) is entered for the template of the current loop.
StartRender ==
    /\ InLoop
    /\ ~rendering
    /\ rendering' = TRUE
    /\ files' = [files EXCEPT ![Current] = FilesAtRenderStart(@, Current, Pass)]
    /\ renders' = [renders EXCEPT ![Current].started = @ + 1]
    /\ UNCHANGED <<script, phase, err, tplfiles, idx, nops, calls, output, isFirstPass,
                   moduleHooks, tpls, lastCall, appended, writtenFor, run,
                   first, lockVars, resolveVars, codegenVars, ctxDone, dirVars>>

\* t.Render has returned: the execution's own state is gone.
Returned ==
    /\ nops' = 0
    /\ output' = <<>>
    /\ lastCall' = NoCall

\* Whether the executing template may make the call op next.
MayCall(op) ==
    /\ InLoop
    /\ rendering
    /\ IF script[Current] = Free
       THEN calls < MaxCalls
       ELSE nops < Len(script[Current]) /\ script[Current][nops + 1] = op

\* The executing template has made one more call.
Called ==
    /\ calls' = calls + 1
    /\ nops' = IF script[Current] = Free THEN nops ELSE nops + 1

\* Whether the executing template may end here.
MayEnd ==
    /\ InLoop
    /\ rendering
    /\ script[Current] = Free \/ nops = Len(script[Current])

\* HooksAfterAdd without the check of the pass.
HooksAfterAdd_AnyPass(hooks, firstPass, module, name, data) ==
    IF DataError(data) THEN hooks
    ELSE AppendHook(hooks, Join(module, name), data.elems)

\* What AddToModuleHook(module, name, data) does to the hook store.
HooksAfterAdd(hooks, firstPass, module, name, data) ==
    IF ~firstPass THEN hooks
    ELSE IF DataError(data) THEN hooks
    ELSE AppendHook(hooks, Join(module, name), data.elems)

\* Whether AddToModuleHook(module, name, data) returns an error.
AddReturnsError(firstPass, data) == firstPass /\ DataError(data)

\* TplStencil.AddToModuleHook, called by the executing template. An error
\* ends the template's execution and with it Render.
AddToModuleHook ==
    \E op \in AddOps :
        /\ MayCall(op)
        /\ Called
        /\ moduleHooks' = HooksAfterAdd(moduleHooks, isFirstPass, op.module,
                                        op.name, op.data)
        /\ lastCall' = [op |-> op, caller |-> TemplateModule(Current),
                        firstPass |-> isFirstPass,
                        key |-> Join(op.module, op.name), ret |-> <<>>,
                        error |-> AddReturnsError(isFirstPass, op.data)]
        /\ IF AddReturnsError(isFirstPass, op.data)
           THEN /\ Fail("render")
                /\ UNCHANGED <<appended, writtenFor>>
           ELSE /\ UNCHANGED <<phase, err, rendering, tpls>>
                /\ IF isFirstPass
                   THEN /\ appended' = Logged(appended,
                                           Join(op.module, op.name), op.data.elems)
                        /\ writtenFor' = [writtenFor EXCEPT ![op.module] =
                               @ \cup {op.data.elems[i] : i \in DOMAIN op.data.elems}]
                   ELSE UNCHANGED <<appended, writtenFor>>
        /\ UNCHANGED <<script, tplfiles, idx, output, isFirstPass, files, run,
                       first, lockVars, resolveVars, codegenVars, ctxDone, dirVars, renders>>

\* The key GetModuleHook(name) reads for a template of module caller.
GetKey(caller, name) == Join(caller, name)

\* TplStencil.GetModuleHook, called by the executing template, which writes
\* the elements it got to its output.
GetModuleHook ==
    \E op \in GetOps :
        /\ MayCall(op)
        /\ Called
        /\ LET k == GetKey(TemplateModule(Current), op.name)
               v == HookAt(moduleHooks, k)
           IN  /\ lastCall' = [op |-> op, caller |-> TemplateModule(Current),
                               firstPass |-> isFirstPass, key |-> k, ret |-> v,
                               error |-> FALSE]
               /\ output' = output \o v
        /\ UNCHANGED <<script, phase, err, tplfiles, idx, rendering, isFirstPass,
                       moduleHooks, files, tpls, appended, writtenFor, run,
                       first, lockVars, resolveVars, codegenVars, ctxDone, dirVars, renders>>

\* Render, first loop: t.Render returned without error; the template's files
\* are dropped.
EndRenderFirstPass ==
    /\ phase = "pass1"
    /\ MayEnd
    /\ rendering' = FALSE
    /\ files' = [files EXCEPT ![Current] =
                    FilesAfterFirstPass(FilesAtRenderEnd(@, output))]
    /\ idx' = idx + 1
    /\ Returned
    /\ renders' = [renders EXCEPT ![Current].finished = @ + 1]
    /\ UNCHANGED <<script, phase, err, tplfiles, calls, isFirstPass, moduleHooks,
                   tpls, appended, writtenFor, run, first, lockVars, resolveVars, codegenVars, ctxDone,
                   dirVars>>

\* Render between the loops: the flag is cleared, the hooks are sorted and
\* calcDirReplacements is entered.
EndFirstPass ==
    /\ phase = "pass1"
    /\ idx > Len(tplfiles)
    /\ isFirstPass' = FALSE
    /\ moduleHooks' \in sortModuleHooks(moduleHooks)
    /\ phase' = "dirrep"
    /\ calls' = 0
    /\ dirIdx' = 1
    /\ reps' = NoReps
    /\ UNCHANGED <<script, err, tplfiles, idx, rendering, nops, output, files,
                   tpls, lastCall, appended, writtenFor, run, first, lockVars,
                   resolveVars, codegenVars, ctxDone, dirReplacements, stored, dirRenders, lastDir, renders>>

\* calcDirReplacements, one entry of the DirReplacements of the module it is
\* at, in the order the map yields them: the expression is rendered, and an
\* error ends calcDirReplacements and Render.
RenderDirReplacement ==
    /\ phase = "dirrep"
    /\ dirIdx <= Len(Modules)
    /\ \E dsrc \in DOMAIN dirReplacements[dirIdx] \ DOMAIN reps :
          LET dtmp == dirReplacements[dirIdx][dsrc]
              r == renderDirReplacement(dtmp)
          IN  /\ dirRenders' = [dirRenders EXCEPT ![<<dirIdx, dsrc>>] = @ + 1]
              /\ lastDir' = [module |-> dirIdx, src |-> dsrc, template |-> dtmp,
                             out |-> RenderExpr(dtmp).out, err |-> r.err]
              /\ IF r.err # ""
                 THEN /\ Fail(r.err)
                      /\ UNCHANGED reps
                 ELSE /\ reps' = [x \in DOMAIN reps \cup {dsrc} |->
                                     IF x = dsrc THEN r.nn ELSE reps[x]]
                      /\ UNCHANGED <<phase, err, rendering, tpls>>
    /\ UNCHANGED <<script, tplfiles, idx, nops, calls, output, isFirstPass,
                   moduleHooks, files, lastCall, appended, writtenFor, run,
                   first, lockVars, resolveVars, codegenVars, ctxDone, dirReplacements, dirIdx, stored,
                   renders>>

\* calcDirReplacements, the end of a module's entries: the map is stored on
\* the module.
StoreModuleDirReplacements ==
    /\ phase = "dirrep"
    /\ dirIdx <= Len(Modules)
    /\ DOMAIN reps = DOMAIN dirReplacements[dirIdx]
    /\ stored' = StoreDirReplacements(stored, dirIdx, reps)
    /\ reps' = NoReps
    /\ lastDir' = NoDir
    /\ dirIdx' = dirIdx + 1
    /\ UNCHANGED <<script, phase, err, tplfiles, idx, rendering, nops, calls,
                   output, isFirstPass, moduleHooks, files, tpls, lastCall,
                   appended, writtenFor, run, first, lockVars, resolveVars, codegenVars, ctxDone,
                   dirReplacements, dirRenders, renders>>

\* calcDirReplacements returns without error and the second loop begins.
CalcDirReplacementsReturns ==
    /\ phase = "dirrep"
    /\ dirIdx > Len(Modules)
    /\ phase' = "pass2"
    /\ idx' = 1
    /\ UNCHANGED <<script, err, tplfiles, rendering, nops, calls, output,
                   isFirstPass, moduleHooks, files, tpls, lastCall, appended,
                   writtenFor, run, first, lockVars, resolveVars, codegenVars, ctxDone, dirVars, renders>>

\* calcDirReplacements.
CalcDirReplacements ==
    \/ RenderDirReplacement
    \/ StoreModuleDirReplacements
    \/ CalcDirReplacementsReturns

\* Render, second loop: t.Render returned without error; the template joins
\* the templates Render returns.
EndRenderSecondPass ==
    /\ phase = "pass2"
    /\ MayEnd
    /\ rendering' = FALSE
    /\ files' = [files EXCEPT ![Current] = FilesAtRenderEnd(@, output)]
    /\ tpls' = Append(tpls, Current)
    /\ idx' = idx + 1
    /\ Returned
    /\ renders' = [renders EXCEPT ![Current].finished = @ + 1]
    /\ UNCHANGED <<script, phase, err, tplfiles, calls, isFirstPass, moduleHooks,
                   appended, writtenFor, run, first, lockVars, resolveVars, codegenVars, ctxDone, dirVars>>

\* Render returns the templates.
ReturnTemplates ==
    /\ phase = "pass2"
    /\ idx > Len(tplfiles)
    /\ phase' = "done"
    /\ UNCHANGED <<script, err, tplfiles, idx, rendering, nops, calls, output,
                   isFirstPass, moduleHooks, files, tpls, lastCall, appended,
                   writtenFor, run, first, lockVars, resolveVars, codegenVars, ctxDone, dirVars, renders>>

Next ==
    \/ GetTemplates
    \/ ParseTemplates
    \/ StartRender
    \/ AddToModuleHook
    \/ GetModuleHook
    \/ EndRenderFirstPass
    \/ EndFirstPass
    \/ CalcDirReplacements
    \/ EndRenderSecondPass
    \/ ReturnTemplates

Spec == Init /\ [][Next]_vars

\* ---------------------------------------------------------- two invocations

\* The program is run a second time on the same modules and templates: a new
\* engine, and what the first invocation produced kept for comparison.
RunAgain ==
    /\ phase = "done"
    /\ run = 1
    /\ run' = 2
    /\ first' = [valid |-> TRUE, tplfiles |-> tplfiles,
                 moduleHooks |-> moduleHooks, files |-> files]
    /\ phase' = "new"
    /\ err' = ""
    /\ tplfiles' = <<>>
    /\ idx' = 0
    /\ rendering' = FALSE
    /\ nops' = 0
    /\ calls' = 0
    /\ output' = <<>>
    /\ isFirstPass' = TRUE
    /\ moduleHooks' = EmptyMap
    /\ files' = [t \in Templates |-> <<>>]
    /\ tpls' = <<>>
    /\ lastCall' = NoCall
    /\ appended' = EmptyMap
    /\ writtenFor' = [m \in ModuleNames |-> {}]
    /\ dirIdx' = 0
    /\ reps' = NoReps
    /\ stored' = [i \in 1 .. Len(Modules) |-> NoReps]
    /\ dirRenders' = [k \in (1 .. Len(Modules)) \X DirSources |-> 0]
    /\ lastDir' = NoDir
    /\ renders' = NoRenders
    /\ UNCHANGED <<script, lockVars, resolveVars, codegenVars, ctxDone, dirReplacements>>

\* Templates with fixed bodies, so that both invocations render the same
\* templates.
InitShuffle ==
    /\ NewStencil
    /\ script \in [Templates -> Scripts]
    /\ run = 1
    /\ first = NoRun
    /\ lockTpls = <<>>
    /\ lockModules = Modules
    /\ lock = NoLock
    /\ dirReplacements = TestDirReplacements
    /\ ResolverIdle
    /\ CodegenIdle

NextShuffle ==
    \/ Next
    \/ RunAgain

SpecShuffle == InitShuffle /\ [][NextShuffle]_vars

\* ------------------------------------------------ failures and cancellation

\* The templates of TestModuleHookRender: the first adds to the hook of the
\* second module, the second reads its hook, any other calls nothing.
FixtureScript(t) ==
    IF t = 1 THEN <<AddOp(<<"m2">>, <<"h">>, Slice(<<"a", "2i">>))>>
    ELSE IF t = 2 THEN <<GetOp(<<"h">>)>>
    ELSE <<>>

\* The manifests of the modules, each with any DirReplacements.
DirConfigs == [1 .. Len(Modules) -> DirMaps]

\* The context given to Render is cancelled while Render is in its loops.
Cancel ==
    /\ phase \in {"pass1", "dirrep", "pass2"}
    /\ ~ctxDone
    /\ ctxDone' = TRUE
    /\ UNCHANGED <<script, phase, err, tplfiles, idx, rendering, nops, calls,
                   output, isFirstPass, moduleHooks, files, tpls, lastCall,
                   appended, writtenFor, run, first, lockVars, resolveVars, codegenVars, dirVars, renders>>

\* t.Render returns an error of the template's execution.
RenderFails ==
    /\ InLoop
    /\ rendering
    /\ Fail("render")
    /\ Returned
    /\ UNCHANGED <<script, tplfiles, idx, calls, isFirstPass, moduleHooks, files,
                   appended, writtenFor, run, first, lockVars, resolveVars, codegenVars, ctxDone, dirVars,
                   renders>>

InitRender ==
    /\ NewStencil
    /\ script = [t \in Templates |-> FixtureScript(t)]
    /\ run = 1
    /\ first = NoRun
    /\ lockTpls = <<>>
    /\ lockModules = Modules
    /\ lock = NoLock
    /\ dirReplacements \in DirConfigs
    /\ ResolverIdle
    /\ CodegenIdle

NextRender ==
    \/ Next
    \/ Cancel
    \/ RenderFails

SpecRender == InitRender /\ [][NextRender]_vars

\* ------------------------------------------------- Render called once more

\* Render is called a second time on the same engine, after it returned the
\* templates or an error: the locals of Render and the templates getTemplates
\* makes are new, the fields of the engine are what the first call left.
RenderAgain ==
    /\ phase \in {"done", "failed"}
    /\ run = 1
    /\ run' = 2
    /\ first' = [valid |-> phase = "done", tplfiles |-> tplfiles,
                 moduleHooks |-> moduleHooks, files |-> files]
    /\ phase' = "new"
    /\ err' = ""
    /\ tplfiles' = <<>>
    /\ idx' = 0
    /\ rendering' = FALSE
    /\ nops' = 0
    /\ calls' = 0
    /\ output' = <<>>
    /\ files' = [t \in Templates |-> <<>>]
    /\ tpls' = <<>>
    /\ lastCall' = NoCall
    /\ appended' = EmptyMap
    /\ writtenFor' = [m \in ModuleNames |-> {}]
    /\ dirIdx' = 0
    /\ reps' = NoReps
    /\ dirRenders' = [k \in (1 .. Len(Modules)) \X DirSources |-> 0]
    /\ lastDir' = NoDir
    /\ renders' = NoRenders
    /\ UNCHANGED <<script, isFirstPass, moduleHooks, stored, lockVars, resolveVars,
                   codegenVars, ctxDone, dirReplacements>>

InitAgain ==
    /\ NewStencil
    /\ script = [t \in Templates |-> FixtureScript(t)]
    /\ run = 1
    /\ first = NoRun
    /\ lockTpls = <<>>
    /\ lockModules = Modules
    /\ lock = NoLock
    /\ dirReplacements = TestDirReplacements
    /\ ResolverIdle
    /\ CodegenIdle

NextAgain ==
    \/ Next
    \/ RenderFails
    \/ RenderAgain

SpecAgain == InitAgain /\ [][NextAgain]_vars

\* ---------------------------------------------------------------- lockfile

\* Output file names, named by their rank in the order of Go's string "<".
FileNames == 1 .. MaxName

\* Whether module name a is before module name b in the order of Go's string
\* "<": "m1" < "m2".
ModuleLess(a, b) ==
    \E i, j \in DOMAIN Modules : Modules[i] = a /\ Modules[j] = b /\ i < j

\* Listed without the check of Deleted.
Listed_SkippedOnly(f) == ~f.Skipped

\* "Don't write files we skipped, or deleted, to the lockfile".
Listed(f) == ~(f.Skipped \/ f.Deleted)

\* The file entries of one template, in the order of its Files.
RECURSIVE FileEntries(_, _)
FileEntries(tpl, fs) ==
    IF fs = <<>> THEN <<>>
    ELSE (IF Listed(Head(fs))
          THEN <<[Name |-> Head(fs).Name, Template |-> tpl.Path,
                  Module |-> tpl.Module]>>
          ELSE <<>>) \o FileEntries(tpl, Tail(fs))

\* The file entries of the templates, in the order of the list.
RECURSIVE AllFileEntries(_)
AllFileEntries(ts) ==
    IF ts = <<>> THEN <<>>
    ELSE FileEntries(Head(ts), Head(ts).Files) \o AllFileEntries(Tail(ts))

\* The module entries, in the order of s.modules.
ModuleEntries(mods) ==
    [i \in DOMAIN mods |-> [Name |-> mods[i], URL |-> mods[i], Version |-> "v"]]

\* sort.SliceStable inserting x: x moves left past the entries its name is
\* less than, and past no entry of the same name.
RECURSIVE InsertFile(_, _)
InsertFile(s, x) ==
    IF s = <<>> THEN <<x>>
    ELSE IF x.Name < s[Len(s)].Name
         THEN Append(InsertFile(SubSeq(s, 1, Len(s) - 1), x), s[Len(s)])
         ELSE Append(s, x)

RECURSIVE SortFilesFrom(_, _)
SortFilesFrom(sorted, rest) ==
    IF rest = <<>> THEN sorted
    ELSE SortFilesFrom(InsertFile(sorted, Head(rest)), Tail(rest))

\* SortFiles leaving the entries as they are.
SortFiles_None(entries) == entries

\* sort.SliceStable(l.Files, by Name).
SortFiles(entries) == SortFilesFrom(<<>>, entries)

RECURSIVE InsertModule(_, _)
InsertModule(s, x) ==
    IF s = <<>> THEN <<x>>
    ELSE IF ModuleLess(x.Name, s[Len(s)].Name)
         THEN Append(InsertModule(SubSeq(s, 1, Len(s) - 1), x), s[Len(s)])
         ELSE Append(s, x)

RECURSIVE SortModulesFrom(_, _)
SortModulesFrom(sorted, rest) ==
    IF rest = <<>> THEN sorted
    ELSE SortModulesFrom(InsertModule(sorted, Head(rest)), Tail(rest))

\* sort.SliceStable(l.Modules, by Name).
SortModules(entries) == SortModulesFrom(<<>>, entries)

\* Stencil.GenerateLockfile(tpls) on an engine whose modules are mods.
GenerateLockfile(ts, mods) ==
    [done |-> TRUE,
     Files |-> SortFiles(AllFileEntries(ts)),
     Modules |-> SortModules(ModuleEntries(mods))]

\* The lists of files a template may hold.
LockFiles == [Name : FileNames, Skipped : BOOLEAN, Deleted : BOOLEAN]

\* The ways to cut n files into the Files of the templates, one after the
\* other: c[i] files belong to the first i templates.
Cuts(n) ==
    {c \in [0 .. NumTemplates -> 0 .. n] :
        /\ c[0] = 0
        /\ c[NumTemplates] = n
        /\ \A i \in Templates : c[i - 1] <= c[i]}

\* The template list whose templates are p, in that order, and hold the
\* files all, cut at c.
TemplateList(p, all, c) ==
    [i \in Templates |->
        [Path |-> p[i], Module |-> TemplateModule(p[i]),
         Files |-> SubSeq(all, c[i - 1] + 1, c[i])]]

\* The template lists handed to GenerateLockfile: every template once, in
\* any order, holding n files at most all together.
LockTemplateLists(n) ==
    {TemplateList(x[1], x[2][1], x[2][2]) :
        x \in Perms(Templates) \X
              UNION {{<<all, c>> : c \in Cuts(Len(all))} :
                        all \in SeqsUpTo(LockFiles, n)}}

InitLock ==
    /\ NewStencil
    /\ script = [t \in Templates |-> Free]
    /\ run = 1
    /\ first = NoRun
    /\ lockTpls \in LockTemplateLists(MaxLockFiles)
    /\ lockModules \in Perms(ModuleNames)
    /\ lock = NoLock
    /\ dirReplacements = TestDirReplacements
    /\ ResolverIdle
    /\ CodegenIdle

\* GenerateLockfile is called on the templates.
CallGenerateLockfile ==
    /\ ~lock.done
    /\ lock' = GenerateLockfile(lockTpls, lockModules)
    /\ UNCHANGED <<script, renderVars, run, first, lockTpls, lockModules,
                   resolveVars, codegenVars>>

NextLock == CallGenerateLockfile

SpecLock == InitLock /\ [][NextLock]_vars

\* ---------------------------------------------------------- module resolver

\* The module fetched from its repository.
Remote == "base"

\* The modules given as replacements (in-memory modules).
Replaced == {"a", "b"}

ResolveNames == {Remote} \cup Replaced

\* The provenance of a constraint of the service manifest.
TopLevel == "(top-level)"

\* The prerelease channels.
Channels == {"rc", "unstable"}

\* Versions: a release n, the prerelease of a channel (of the release after
\* the latest one), a branch, and the version of an in-memory module.
Release(n) == [kind |-> "semver", n |-> n, pre |-> ""]

PreRelease(c) == [kind |-> "semver", n |-> MaxVersion + 1, pre |-> c]

Branch(b) == [kind |-> "branch", n |-> 0, pre |-> b]

LocalVersion == [kind |-> "local", n |-> 0, pre |-> "v0.0.0-+"]

NoVersion == [kind |-> "none", n |-> 0, pre |-> ""]

\* The versions the remote module's repository holds.
Available == {Release(n) : n \in 1 .. MaxVersion} \cup {PreRelease(c) : c \in Channels}

\* Semantic-version order: a prerelease precedes its release.
VersionLess(a, b) == a.n < b.n \/ (a.n = b.n /\ a.pre # "" /\ b.pre = "")

\* The version ranges the manifests use.
RangeStrings == {"=<0.5.0", "~0.3.0", ">=0.5.0"}

\* The branches the manifests use.
BranchNames == {"main"}

\* A range parsed, with the releases v0.3.1, v0.3.2, v0.5.0 numbered 1, 2, 3.
ParseRange(str) ==
    CASE str = "=<0.5.0" -> [lo |-> 0, hi |-> 3, bounded |-> TRUE]
      [] str = "~0.3.0" -> [lo |-> 1, hi |-> 2, bounded |-> TRUE]
      [] str = ">=0.5.0" -> [lo |-> 3, hi |-> 0, bounded |-> FALSE]
      [] OTHER -> [lo |-> 0, hi |-> 0, bounded |-> FALSE]

InRange(v, r) == r.lo <= v.n /\ (r.bounded => v.n <= r.hi)

\* An entry of a modules list.
Require(n, v, c) == [name |-> n, version |-> v, channel |-> c]

\* What the service manifest may require: the remote module, or the first of
\* the in-memory modules.
TopReqs ==
    {Require(Remote, v, "") : v \in {""} \cup RangeStrings \cup BranchNames}
        \cup {Require(Remote, "", c) : c \in Channels}
        \cup {Require("a", "", "")}

\* What the manifest of the in-memory module n may require: a range of the
\* remote module, or the other in-memory module.
DepReqs(n) ==
    {Require(Remote, v, "") : v \in {"~0.3.0", ">=0.5.0"}}
        \cup {Require(m, "", "") : m \in Replaced \ {n}}

\* The manifests: the remote module requires nothing, an in-memory module at
\* most one module.
ManifestSets ==
    {f \in [ResolveNames -> SeqsUpTo(UNION {DepReqs(n) : n \in Replaced}, 1)] :
        /\ f[Remote] = <<>>
        /\ \A n \in Replaced : \A i \in DOMAIN f[n] : f[n][i] \in DepReqs(n)}

\* A constraint with its provenance.
Want(r, p, pv) == [req |-> r, parent |-> p, parentVersion |-> pv]

WantsOf(ws, n) == IF n \in DOMAIN ws THEN ws[n] ELSE <<>>

\* Seen that forgets.
Seen_Never(ws, w) == FALSE

\* Whether the constraint w was already considered.
Seen(ws, w) == \E i \in DOMAIN ws : ws[i] = w

\* The constraints with w accumulated.
AddWant(ws, w) == IF \E i \in DOMAIN ws : ws[i] = w THEN ws ELSE Append(ws, w)

\* ChannelConflict that accepts any channels.
ChannelConflict_Never(ws) == FALSE

\* Whether two of the constraints name different channels.
ChannelConflict(ws) ==
    \E i, j \in DOMAIN ws :
        /\ ws[i].req.channel # ""
        /\ ws[j].req.channel # ""
        /\ ws[i].req.channel # ws[j].req.channel

\* The channel the constraints name, "" when none.
ActiveChannel(ws) ==
    IF \E i \in DOMAIN ws : ws[i].req.channel # ""
    THEN (CHOOSE c \in Channels : \E i \in DOMAIN ws : ws[i].req.channel = c)
    ELSE ""

\* TopLevelPins that looks at the latest constraint only.
TopLevelPins_Latest(ws) ==
    {ws[i].req.version : i \in {j \in DOMAIN ws :
        /\ j = Len(ws)
        /\ ws[j].parent = TopLevel
        /\ ws[j].req.version \in BranchNames}}

\* The branches the service manifest pins the module to.
TopLevelPins(ws) ==
    {ws[i].req.version : i \in {j \in DOMAIN ws :
        /\ ws[j].parent = TopLevel
        /\ ws[j].req.version \in BranchNames}}

\* Satisfying that applies the latest constraint only.
Satisfying_Latest(ws, channel) ==
    {v \in Available :
        /\ v.pre = "" \/ v.pre = channel
        /\ ws[Len(ws)].req.version \in RangeStrings =>
               InRange(v, ParseRange(ws[Len(ws)].req.version))}

\* The versions of the channel's candidate set within every range.
Satisfying(ws, channel) ==
    {v \in Available :
        /\ v.pre = "" \/ v.pre = channel
        /\ \A i \in DOMAIN ws :
               ws[i].req.version \in RangeStrings =>
                   InRange(v, ParseRange(ws[i].req.version))}

Highest(S) == CHOOSE v \in S : \A u \in S : u = v \/ VersionLess(u, v)

ChannelError == "previously resolved with channel"

NoVersionError == "no version found matching criteria"

\* The version the module n resolves to under the constraints ws, or the
\* error.
Select(n, ws) ==
    IF ChannelConflict(ws) THEN [err |-> ChannelError, version |-> NoVersion]
    ELSE IF n \in Replaced THEN [err |-> "", version |-> LocalVersion]
    ELSE IF TopLevelPins(ws) # {}
    THEN [err |-> "", version |-> Branch(CHOOSE b \in TopLevelPins(ws) : TRUE)]
    ELSE IF Satisfying(ws, ActiveChannel(ws)) = {}
    THEN [err |-> NoVersionError, version |-> NoVersion]
    ELSE [err |-> "", version |-> Highest(Satisfying(ws, ActiveChannel(ws)))]

\* ErrorChain that names the latest constraint only.
ErrorChain_Latest(ws) == <<ws[Len(ws)]>>

\* The constraints the error lists.
ErrorChain(ws) == ws

\* Resolve that adds an entry each time.
Resolve_Append(list, n, v) == Append(list, [name |-> n, version |-> v])

\* The resolved modules with n at version v.
Resolve(list, n, v) ==
    IF \E i \in DOMAIN list : list[i].name = n
    THEN [i \in DOMAIN list |->
             IF list[i].name = n THEN [name |-> n, version |-> v] ELSE list[i]]
    ELSE Append(list, [name |-> n, version |-> v])

\* The module references of n's manifest, as required by n at version v.
Deps(n, v) == [i \in DOMAIN manifests[n] |-> Want(manifests[n][i], n, v)]

\* GetModulesForService is called: the queue is seeded with the service
\* manifest's modules.
StartResolve ==
    /\ rphase = "new"
    /\ rphase' = "running"
    /\ queue' = [i \in DOMAIN top |-> Want(top[i], TopLevel, NoVersion)]
    /\ UNCHANGED <<top, manifests, wants, resolved, rerr>>
    /\ UNCHANGED <<script, renderVars, run, first, lockVars, codegenVars>>

\* One entry of the queue: its constraint is accumulated, the module is
\* resolved under all its constraints and its own references are enqueued.
ResolveModule ==
    /\ rphase = "running"
    /\ queue # <<>>
    /\ LET w == Head(queue)
           n == w.req.name
           ws == AddWant(WantsOf(wants, n), w)
           sel == Select(n, ws)
       IN  IF Seen(WantsOf(wants, n), w)
           THEN /\ queue' = Tail(queue)
                /\ UNCHANGED <<wants, resolved, rphase, rerr>>
           ELSE /\ wants' = [x \in DOMAIN wants \cup {n} |->
                                IF x = n THEN ws ELSE wants[x]]
                /\ IF sel.err # ""
                   THEN /\ rphase' = "failed"
                        /\ rerr' = [kind |-> sel.err, module |-> n,
                                    chain |-> ErrorChain(ws)]
                        /\ resolved' = <<>>
                        /\ UNCHANGED queue
                   ELSE /\ resolved' = Resolve(resolved, n, sel.version)
                        /\ queue' = Tail(queue) \o Deps(n, sel.version)
                        /\ UNCHANGED <<rphase, rerr>>
    /\ UNCHANGED <<top, manifests>>
    /\ UNCHANGED <<script, renderVars, run, first, lockVars, codegenVars>>

\* The queue is empty: GetModulesForService returns the modules.
ReturnModules ==
    /\ rphase = "running"
    /\ queue = <<>>
    /\ rphase' = "done"
    /\ UNCHANGED <<top, manifests, queue, wants, resolved, rerr>>
    /\ UNCHANGED <<script, renderVars, run, first, lockVars, codegenVars>>

InitResolve ==
    /\ NewStencil
    /\ script = [t \in Templates |-> Free]
    /\ run = 1
    /\ first = NoRun
    /\ lockTpls = <<>>
    /\ lockModules = Modules
    /\ lock = NoLock
    /\ dirReplacements = TestDirReplacements
    /\ top \in SeqsUpTo(TopReqs, MaxTop)
    /\ manifests \in ManifestSets
    /\ queue = <<>>
    /\ wants = [n \in {} |-> <<>>]
    /\ resolved = <<>>
    /\ rphase = "new"
    /\ rerr = NoError
    /\ CodegenIdle

NextResolve ==
    \/ StartResolve
    \/ ResolveModule
    \/ ReturnModules

SpecResolve == InitResolve /\ [][NextResolve]_vars

\* The resolver is not stopped while it has work.
SpecResolveFair == SpecResolve /\ WF_vars(NextResolve)

\* ----------------------------------------------------------------- Builder

\* The warning WriteTemplate returns for a file with deviations.
DeviationWarning(filePath) == [kind |-> "SKIPPED", file |-> filePath]

\* GenerateFiles at the next template of the walk: WriteTemplate is called
\* with the template's path and the one map makeTemplateParameters returned.
\* It scans the file at that path into args, stops with a warning when the
\* file has deviations, renders the template and writes what it rendered.
\* An error ends the walk.
WriteTemplate ==
    /\ widx \in DOMAIN TemplatePaths
    /\ werr = NoBuilderError
    /\ LET filePath == TemplatePaths[widx]
           scan == IF Exists(disk, filePath)
                   THEN ScanBlocks(filePath, disk[filePath].lines, 0, "", args)
                   ELSE [err |-> NoBuilderError, args |-> args]
           call == [NoWrite EXCEPT !.path = filePath]
       IN  /\ args' = scan.args
           /\ widx' = widx + 1
           /\ IF scan.err # NoBuilderError
              THEN /\ werr' = scan.err
                   /\ wcalls' = Append(wcalls, [call EXCEPT !.err = scan.err])
                   /\ UNCHANGED <<disk, warnings>>
              ELSE IF HasDeviations(disk, filePath)
              THEN /\ warnings' = Append(warnings, DeviationWarning(filePath))
                   /\ wcalls' = Append(wcalls,
                         [call EXCEPT !.warnings = <<DeviationWarning(filePath)>>])
                   /\ UNCHANGED <<disk, werr>>
              ELSE \E outs \in RenderedLists(MaxOutputs), executes \in BOOLEAN :
                      IF ~executes
                      THEN /\ werr' = BuilderError("render", filePath, 0)
                           /\ wcalls' = Append(wcalls,
                                 [call EXCEPT !.received = <<scan.args>>,
                                              !.err = BuilderError("render", filePath, 0)])
                           /\ UNCHANGED <<disk, warnings>>
                      ELSE LET res == WriteRendered(filePath, outs, 1, filePath,
                                         [disk |-> disk, warnings |-> <<>>,
                                          written |-> <<>>, err |-> NoBuilderError])
                           IN  /\ disk' = res.disk
                               /\ werr' = res.err
                               /\ warnings' = warnings \o res.warnings
                               /\ wcalls' = Append(wcalls,
                                     [call EXCEPT !.received = <<scan.args>>,
                                                  !.outs = outs,
                                                  !.written = res.written,
                                                  !.warnings = res.warnings,
                                                  !.err = res.err])
    /\ UNCHANGED <<script, renderVars, run, first, lockVars, resolveVars, disk0,
                   procVars>>

InitBuilder ==
    /\ NewStencil
    /\ script = [t \in Templates |-> Free]
    /\ run = 1
    /\ first = NoRun
    /\ lockTpls = <<>>
    /\ lockModules = Modules
    /\ lock = NoLock
    /\ dirReplacements = TestDirReplacements
    /\ ResolverIdle
    /\ disk0 \in Disks
    /\ disk = disk0
    /\ args = EmptyMap
    /\ widx = 1
    /\ werr = NoBuilderError
    /\ warnings = <<>>
    /\ wcalls = <<>>
    /\ registered = <<>>
    /\ previousVersion = NilVersion
    /\ runner = <<>>
    /\ processed = NoProcess

NextBuilder == WriteTemplate

SpecBuilder == InitBuilder /\ [][NextBuilder]_vars

\* ------------------------------------------------------------------ Runner

\* The shapes of the processors a test registers.
ProcessorShapes ==
    {[exts |-> e[1], names |-> e[2], pre |-> pre, post |-> post, gate |-> g] :
        e \in {<<{".go"}, {}>>, <<{}, {<<"f", ".go">>}>>},
        pre \in BOOLEAN, post \in BOOLEAN,
        g \in {NilVersion, Version(2)}}

\* Lists of at most n processors, each named by its place in the list.
ProcessorLists(n) ==
    UNION {{[i \in 1 .. m |->
                Processor(i, s[i].exts, s[i].names, s[i].pre, s[i].post, s[i].gate)] :
             s \in [1 .. m -> ProcessorShapes]} : m \in 0 .. n}

\* What bootstrap.lock may name as the previous version.
PreviousVersions == {NilVersion, Version(1), Version(2), Version(3)}

\* The names of the files handed to the runner.
ProcessedNames == {<<"f", ".go">>, <<"h">>}

\* processors.New on the registered processors.
NewRunner ==
    /\ runner = <<>>
    /\ runner' = <<New(registered, previousVersion)>>
    /\ UNCHANGED <<script, renderVars, run, first, lockVars, resolveVars,
                   builderVars, registered, previousVersion, processed>>

\* One of RunPreCodegen, RunDuringCodegen and RunPostCodegen on a file and a
\* template; bad is the processor whose Process returns an error, if any.
Run(stage) ==
    /\ runner # <<>>
    /\ \E e \in ProcessedNames, t \in ProcessedNames, bad \in 0 .. 1 :
          LET res == CASE stage = "pre" ->
                            RunPreCodegen(runner[1], ProcFile(e), ProcFile(t), bad)
                       [] stage = "during" ->
                            RunDuringCodegen(runner[1], ProcFile(e), ProcFile(t), bad)
                       [] stage = "post" ->
                            RunPostCodegen(runner[1], ProcFile(e), ProcFile(t), bad)
          IN  processed' = [stage |-> stage, existing |-> e, template |-> t,
                            file |-> res.file, err |-> res.err, invoked |-> res.invoked]
    /\ UNCHANGED <<script, renderVars, run, first, lockVars, resolveVars,
                   builderVars, registered, previousVersion, runner>>

CallRunPreCodegen == Run("pre")

CallRunDuringCodegen == Run("during")

CallRunPostCodegen == Run("post")

InitRunner ==
    /\ NewStencil
    /\ script = [t \in Templates |-> Free]
    /\ run = 1
    /\ first = NoRun
    /\ lockTpls = <<>>
    /\ lockModules = Modules
    /\ lock = NoLock
    /\ dirReplacements = TestDirReplacements
    /\ ResolverIdle
    /\ disk0 = EmptyMap
    /\ disk = EmptyMap
    /\ args = EmptyMap
    /\ widx = 0
    /\ werr = NoBuilderError
    /\ warnings = <<>>
    /\ wcalls = <<>>
    /\ registered \in ProcessorLists(MaxProcessors)
    /\ previousVersion \in PreviousVersions
    /\ runner = <<>>
    /\ processed = NoProcess

NextRunner ==
    \/ NewRunner
    \/ CallRunPreCodegen
    \/ CallRunDuringCodegen
    \/ CallRunPostCodegen

SpecRunner == InitRunner /\ [][NextRunner]_vars

\* ------------------------------------------------------------------ claims

Occurrences(s, v) == Cardinality({i \in DOMAIN s : s[i] = v})

IsPermutation(s1, s2) ==
    /\ Len(s1) = Len(s2)
    /\ \A v \in HookValues : Occurrences(s1, v) = Occurrences(s2, v)

\* The step is a template's call of AddToModuleHook.
AddStep == calls' = calls + 1 /\ lastCall'.op.op = "add"

\* C1: when Render has returned successfully, every file of every returned
\* template was created in pass 2: no file of pass 1 is left.
C1_NoFirstPassFiles ==
    phase = "done" =>
        \A i \in DOMAIN tpls : \A j \in DOMAIN files[tpls[i]] :
            files[tpls[i]][j].pass = 2

\* Render has returned every template, one of them with output in its file.
C1_Witness ==
    /\ phase = "done"
    /\ Len(tpls) = NumTemplates
    /\ \E t \in Templates : Len(files[t]) = 1 /\ files[t][1].contents # <<>>

\* C2: a call of AddToModuleHook in pass 2 returns no error, does not end
\* Render and leaves the hook store as it was, whatever its arguments.
C2_SecondPassAddIsNoOp ==
    [][(AddStep /\ ~isFirstPass) =>
          /\ moduleHooks' = moduleHooks
          /\ ~lastCall'.error
          /\ err' = ""
          /\ phase' = phase]_vars

\* AddToModuleHook was called in pass 2 with data that is no list, and with
\* a list, while the store held hooks.
C2_Witness ==
    /\ lastCall.op.op = "add"
    /\ ~lastCall.firstPass
    /\ lastCall.op.data.kind = "scalar"
    /\ moduleHooks # EmptyMap
    /\ phase = "pass2"

\* C5: the list GetModuleHook returns in pass 2 is a permutation of the
\* elements appended to its key in pass 1.
C5_SecondPassSeesAllAppended ==
    (lastCall.op.op = "get" /\ ~lastCall.firstPass) =>
        IsPermutation(lastCall.ret,
                      IF lastCall.key \in DOMAIN appended
                      THEN appended[lastCall.key] ELSE <<>>)

\* GetModuleHook returned, in pass 2, three elements or more in an order
\* that is not the order in which they were appended.
C5_Witness ==
    /\ lastCall.op.op = "get"
    /\ ~lastCall.firstPass
    /\ Len(lastCall.ret) >= 3
    /\ lastCall.key \in DOMAIN appended
    /\ lastCall.ret # appended[lastCall.key]

\* C6: GetModuleHook called by a template of module M returns only values
\* handed to AddToModuleHook for module M, for every hook name.
C6_OwnNamespaceOnly ==
    lastCall.op.op = "get" =>
        \A i \in DOMAIN lastCall.ret : lastCall.ret[i] \in writtenFor[lastCall.caller]

BothDone == run = 2 /\ phase = "done" /\ first.valid

\* C3: two invocations that render the same templates in whatever orders
\* return the same files with the same contents, and leave the same list, in
\* the same order, for every GetModuleHook call of pass 2.
C3_OrderIndependent ==
    BothDone =>
        /\ files = first.files
        /\ \A m \in ModuleNames, n \in HookNames :
               HookAt(moduleHooks, GetKey(m, n)) = HookAt(first.moduleHooks, GetKey(m, n))

\* Template t only calls AddToModuleHook(m, n, [v]).
AddsOnly(t, m, n, v) == script[t] = <<AddOp(m, n, Slice(<<v>>))>>

\* Whether template t1 is rendered before template t2 in the order ts.
Before(ts, t1, t2) ==
    \E i, j \in DOMAIN ts : ts[i] = t1 /\ ts[j] = t2 /\ i < j

\* C4: when AddToModuleHook(m, n, [a]) and AddToModuleHook(m, n, [b]) are the
\* only calls of pass 1, made in one order in one invocation and in the
\* opposite order in the other, the hook m/n holds the same list in pass 2 of
\* both.
C4_HookCommutativity ==
    BothDone =>
        \A t1, t2 \in Templates, m \in ModuleNames, a, b \in HookValues :
            ( /\ t1 # t2
              /\ AddsOnly(t1, m, <<"h">>, a)
              /\ AddsOnly(t2, m, <<"h">>, b)
              /\ \A t \in Templates \ {t1, t2} : script[t] = <<>>
              /\ Before(first.tplfiles, t1, t2)
              /\ Before(tplfiles, t2, t1) )
            => HookAt(moduleHooks, Join(m, <<"h">>))
                   = HookAt(first.moduleHooks, Join(m, <<"h">>))

\* The files of the templates that are neither skipped nor deleted, each
\* named by its template's place in the list and its place in Files.
ListedFiles ==
    {r \in (DOMAIN lockTpls) \X (1 .. MaxLockFiles) :
        /\ r[2] \in DOMAIN lockTpls[r[1]].Files
        /\ ~lockTpls[r[1]].Files[r[2]].Skipped
        /\ ~lockTpls[r[1]].Files[r[2]].Deleted}

\* The lockfile entry a file should have.
EntryFor(r) ==
    [Name |-> lockTpls[r[1]].Files[r[2]].Name,
     Template |-> lockTpls[r[1]].Path,
     Module |-> lockTpls[r[1]].Module]

\* C8: the lockfile holds one file entry for every file that is neither
\* skipped nor deleted, and no other file entry.
C8_LockfileListsEmittedFilesOnly ==
    lock.done =>
        /\ Len(lock.Files) = Cardinality(ListedFiles)
        /\ \A r \in ListedFiles :
               Cardinality({k \in DOMAIN lock.Files : lock.Files[k] = EntryFor(r)})
                   = Cardinality({q \in ListedFiles : EntryFor(q) = EntryFor(r)})

\* A lockfile was made of a template holding a file that is deleted but not
\* skipped and a file that is neither.
C8_Witness ==
    /\ lock.done
    /\ Len(lock.Files) = 1
    /\ \E i \in DOMAIN lockTpls :
           /\ Len(lockTpls[i].Files) = 2
           /\ lockTpls[i].Files[1].Deleted
           /\ ~lockTpls[i].Files[1].Skipped
           /\ Listed(lockTpls[i].Files[2])

\* C9: in the lockfile the file entries are in non-decreasing order of Name,
\* the module entries are in non-decreasing order of Name, and every module
\* of the engine has one module entry.
C9_LockfileSorted ==
    lock.done =>
        /\ \A i, j \in DOMAIN lock.Files :
               i < j => lock.Files[i].Name <= lock.Files[j].Name
        /\ \A i, j \in DOMAIN lock.Modules :
               i < j => ~ModuleLess(lock.Modules[j].Name, lock.Modules[i].Name)
        /\ Len(lock.Modules) = Len(lockModules)
        /\ \A i \in DOMAIN lockModules :
               Cardinality({k \in DOMAIN lock.Modules :
                               lock.Modules[k].Name = lockModules[i]}) = 1

\* A lockfile was made of files and modules that were handed over in
\* decreasing order of Name.
C9_Witness ==
    /\ lock.done
    /\ Len(lock.Files) = 2
    /\ Len(lockTpls[1].Files) = 1
    /\ Len(lockTpls[2].Files) = 1
    /\ lockTpls[1].Files[1].Name > lockTpls[2].Files[1].Name
    /\ ModuleLess(lockModules[2], lockModules[1])

\* The template list ts in the order p.
Reordered(ts, p) == [i \in DOMAIN ts |-> ts[p[i]]]

\* C10: GenerateLockfile returns the same lockfile for every order of the
\* same templates.
C10_LockfileOrderIndependent ==
    lock.done =>
        \A p \in Perms(DOMAIN lockTpls) :
            GenerateLockfile(Reordered(lockTpls, p), lockModules) = lock

\* Whether every template has been rendered once, in pass 1, and no more.
OnlyFirstPassRendered ==
    \A t \in Templates : renders[t] = [started |-> 1, finished |-> 1]

\* C11: once a directory-replacement expression of a module has rendered to
\* a string holding the path separator, Render has failed with the error
\* "contains path separator in output", it returns no templates, and no
\* template is rendered a second time: pass 2 never starts.
C11_SeparatorIsFatal ==
    Contains(lastDir.out, PathSeparator) =>
        /\ phase = "failed"
        /\ err = SeparatorError
        /\ tpls = <<>>
        /\ OnlyFirstPassRendered
        /\ \A t \in Templates : \A i \in DOMAIN files[t] : files[t][i].pass # 2

\* The second module's expression renders to such a string after the first
\* module's replacements were stored.
C11_Witness ==
    /\ Contains(lastDir.out, PathSeparator)
    /\ lastDir.module = 2
    /\ stored[1] # NoReps
    /\ phase = "failed"

\* Whether every expression of every module was rendered exactly once and
\* its result is stored on the module.
AllDirReplacementsStored ==
    \A i \in 1 .. Len(Modules) : \A x \in DirSources :
        IF x \in DOMAIN dirReplacements[i]
        THEN /\ dirRenders[<<i, x>>] = 1
             /\ x \in DOMAIN stored[i]
             /\ stored[i][x] = RenderExpr(dirReplacements[i][x]).out
        ELSE /\ dirRenders[<<i, x>>] = 0
             /\ x \notin DOMAIN stored[i]

\* C12: an expression is rendered only after every template has completed
\* pass 1; and once a template has started pass 2, or Render has returned
\* its templates, every DirReplacements expression of every module has been
\* rendered exactly once and its result is stored on the module.
C12_DirReplacementsOnceBetweenPasses ==
    /\ (\E k \in DOMAIN dirRenders : dirRenders[k] > 0) =>
           \A t \in Templates : renders[t].finished >= 1
    /\ ((\E t \in Templates : renders[t].started >= 2) \/ phase = "done") =>
           AllDirReplacementsStored

\* Render has succeeded with two expressions in the first module and one in
\* the second.
C12_Witness ==
    /\ phase = "done"
    /\ DOMAIN dirReplacements[1] = DirSources
    /\ DOMAIN dirReplacements[2] # {}
    /\ \A t \in Templates : renders[t].finished = 2

\* C13: when Render has failed (a template did not parse, or a render
\* failed in pass 1 or pass 2) it returns an error and no templates; and when
\* a parse failed, no template was rendered and the hook store is empty.
C13_ErrorReturnsNothing ==
    /\ phase = "failed" => (err # "" /\ tpls = <<>>)
    /\ (phase = "failed" /\ err = "parse") =>
           /\ renders = NoRenders
           /\ moduleHooks = EmptyMap
           /\ \A t \in Templates : files[t] = <<>>

\* A render failed in pass 2 after another template had completed pass 2.
C13_Witness ==
    /\ phase = "failed"
    /\ err = "render"
    /\ \E t \in Templates : renders[t].finished = 2

\* C14: when the context is cancelled between two template renders, the
\* next template is not rendered.
C14_CancellationStopsRender ==
    [][(ctxDone /\ InLoop /\ ~rendering) => ~rendering']_vars

\* How many entries of the resolved modules are of the module n.
TimesResolved(n) == Cardinality({i \in DOMAIN resolved : resolved[i].name = n})

\* Whether a constraint on the module n was accumulated from the service
\* manifest, and one from a module's manifest.
WantedByBoth(n) ==
    /\ \E i \in DOMAIN WantsOf(wants, n) : wants[n][i].parent = TopLevel
    /\ \E i \in DOMAIN WantsOf(wants, n) : wants[n][i].parent # TopLevel

\* C15: the modules GetModulesForService returns hold every required module
\* name, of the service manifest and of the manifests of resolved modules,
\* exactly once.
C15_OneVersionPerName ==
    rphase = "done" =>
        /\ \A n \in ResolveNames : TimesResolved(n) <= 1
        /\ \A n \in DOMAIN wants : TimesResolved(n) = 1
        /\ \A i \in DOMAIN top : TimesResolved(top[i].name) = 1

\* The remote module was required twice by the service manifest, with
\* different constraints.
C15_Witness ==
    /\ rphase = "done"
    /\ Len(top) >= 2
    /\ top[1].name = Remote
    /\ top[2].name = Remote
    /\ top[1] # top[2]
    /\ TimesResolved(Remote) = 1

\* Whether the version v is within every range accumulated for the remote
\* module.
WithinAllRanges(v) ==
    \A i \in DOMAIN WantsOf(wants, Remote) :
        wants[Remote][i].req.version \in RangeStrings =>
            InRange(v, ParseRange(wants[Remote][i].req.version))

\* Whether the version v may be chosen under the channels required of the
\* remote module.
Eligible(v) ==
    v.pre = "" \/ \E i \in DOMAIN WantsOf(wants, Remote) :
                      wants[Remote][i].req.channel = v.pre

\* C16: a module resolved to a semantic version is at the highest available
\* version that is within every range accumulated for it, of the service
\* manifest and of the manifests of resolved modules.
C16_HighestWithinAllRanges ==
    rphase = "done" =>
        \A i \in DOMAIN resolved :
            (resolved[i].name = Remote /\ resolved[i].version.kind = "semver") =>
                /\ resolved[i].version \in Available
                /\ WithinAllRanges(resolved[i].version)
                /\ \A u \in Available :
                       (Eligible(u) /\ WithinAllRanges(u)) =>
                           (u = resolved[i].version \/ VersionLess(u, resolved[i].version))

\* The service manifest wants =<0.5.0, an in-memory module wants ~0.3.0, and
\* the module is resolved to the highest 0.3.x.
C16_Witness ==
    /\ rphase = "done"
    /\ \E i \in DOMAIN WantsOf(wants, Remote) :
           wants[Remote][i].parent = TopLevel /\ wants[Remote][i].req.version = "=<0.5.0"
    /\ \E i \in DOMAIN WantsOf(wants, Remote) :
           wants[Remote][i].parent # TopLevel /\ wants[Remote][i].req.version = "~0.3.0"
    /\ \E i \in DOMAIN resolved :
           resolved[i] = [name |-> Remote, version |-> Release(2)]

\* Whether the service manifest pins the remote module to a branch.
PinnedAtTop == \E i \in DOMAIN top : top[i].name = Remote /\ top[i].version \in BranchNames

\* Whether two constraints accumulated for the remote module name different
\* channels.
TwoChannels ==
    \E i, j \in DOMAIN WantsOf(wants, Remote) :
        /\ wants[Remote][i].req.channel # ""
        /\ wants[Remote][j].req.channel # ""
        /\ wants[Remote][i].req.channel # wants[Remote][j].req.channel

\* C17: when no available version is within every range accumulated for a
\* module (that no branch pin and no channel conflict decides),
\* GetModulesForService has failed with "no version found matching
\* criteria"; and with that error it returns no modules and the error lists
\* every constraint accumulated for the module, each with its provenance.
C17_NoVersionListsConstraints ==
    /\ (/\ Remote \in DOMAIN wants
        /\ ~(\E i \in DOMAIN wants[Remote] :
                wants[Remote][i].parent = TopLevel
                    /\ wants[Remote][i].req.version \in BranchNames)
        /\ ~TwoChannels
        /\ ~\E v \in Available : Eligible(v) /\ WithinAllRanges(v)) =>
           (rphase = "failed" /\ rerr.kind = NoVersionError /\ rerr.module = Remote)
    /\ rerr.kind = NoVersionError =>
           /\ rphase = "failed"
           /\ resolved = <<>>
           /\ \A i \in DOMAIN wants[rerr.module] :
                  \E j \in DOMAIN rerr.chain : rerr.chain[j] = wants[rerr.module][i]
           /\ \A j \in DOMAIN rerr.chain :
                  \/ rerr.chain[j].parent = TopLevel
                  \/ (rerr.chain[j].parent \in ResolveNames
                         /\ rerr.chain[j].parentVersion # NoVersion)

\* The service manifest wants >=0.5.0, an in-memory module wants ~0.3.0, and
\* the error lists both.
C17_Witness ==
    /\ rerr.kind = NoVersionError
    /\ Len(rerr.chain) = 2
    /\ rerr.chain[1] = Want(Require(Remote, ">=0.5.0", ""), TopLevel, NoVersion)
    /\ rerr.chain[2].req.version = "~0.3.0"
    /\ rerr.chain[2].parentVersion = LocalVersion

\* C18: when the service manifest pins a module to a branch, the module is
\* resolved to that branch, whatever ranges the manifests of other modules
\* place on it and wherever the pin stands in the service manifest.
C18_BranchDominance ==
    rphase = "done" =>
        \A i \in DOMAIN top :
            (top[i].name = Remote /\ top[i].version \in BranchNames) =>
                \E j \in DOMAIN resolved :
                    resolved[j] = [name |-> Remote, version |-> Branch(top[i].version)]

\* The pin stands after the module whose manifest places a range on the
\* pinned module.
C18_Witness ==
    /\ rphase = "done"
    /\ Len(top) = 2
    /\ top[1].name \in Replaced
    /\ top[2] = Require(Remote, "main", "")
    /\ \E i \in DOMAIN WantsOf(wants, Remote) :
           wants[Remote][i].parent # TopLevel
               /\ wants[Remote][i].req.version \in RangeStrings

\* C19: once a module has been required with two different channels,
\* GetModulesForService has failed with "previously resolved with channel";
\* it never returns a module required with two channels.
C19_OneChannelPerModule ==
    TwoChannels =>
        /\ rphase = "failed"
        /\ rerr.kind = ChannelError
        /\ rerr.module = Remote
        /\ resolved = <<>>

\* The service manifest requires the module with rc and with unstable.
C19_Witness ==
    /\ rphase = "failed"
    /\ rerr.kind = ChannelError
    /\ top = <<Require(Remote, "", "rc"), Require(Remote, "", "unstable")>>

\* Whether the in-memory modules require each other and one of them is
\* required by the service manifest.
Cycle ==
    /\ \A n \in Replaced :
           Len(manifests[n]) = 1 /\ manifests[n][1].name \in Replaced \ {n}
    /\ \E i \in DOMAIN top : top[i].name \in Replaced

\* C20: GetModulesForService returns, with the modules or with an error,
\* for every module graph; and on a cycle of modules that require each other
\* it returns each module of the cycle exactly once.
C20_ResolutionTerminates ==
    /\ <>(rphase \in {"done", "failed"})
    /\ [](rphase = "done" /\ Cycle => \A n \in Replaced : TimesResolved(n) = 1)

\* The modules of a cycle were resolved.
C20_Witness ==
    /\ rphase = "done"
    /\ Cycle
    /\ \A n \in Replaced : TimesResolved(n) = 1

\* A line that is the command c in a recognised comment.
IsCommand(line, c) == line.prefix \in CommentPrefixes /\ line.cmd = c /\ line.arg # ""

IsBlockMarker(line) == IsCommand(line, "Block") \/ IsCommand(line, "EndBlock")

\* The block that is open before line j of a file whose markers before j are
\* well formed: the one the latest marker opened, none when it closed one.
OpenBefore(lines, j) ==
    LET before == {i \in 1 .. j - 1 : IsBlockMarker(lines[i])}
    IN  IF before = {} THEN ""
        ELSE LET m == CHOOSE i \in before : \A h \in before : h <= i
             IN  IF IsCommand(lines[m], "Block") THEN lines[m].arg ELSE ""

\* Line j is a Block inside a block, or an EndBlock that does not name the
\* open block.
Offending(lines, j) ==
    \/ IsCommand(lines[j], "Block") /\ OpenBefore(lines, j) # ""
    \/ IsCommand(lines[j], "EndBlock") /\ lines[j].arg # OpenBefore(lines, j)

Malformed(lines) == \E j \in DOMAIN lines : Offending(lines, j)

FirstOffending(lines) ==
    CHOOSE j \in DOMAIN lines :
        Offending(lines, j) /\ \A i \in 1 .. j - 1 : ~Offending(lines, i)

BlockErrors == {"nested Block", "mismatched EndBlock", "EndBlock outside block"}

\* The template the walk is at, and the call WriteTemplate has just made.
WalkPath == TemplatePaths[widx]

Walking == widx \in DOMAIN TemplatePaths /\ werr = NoBuilderError

LastWrite == wcalls[Len(wcalls)]

BlockNames(lines) ==
    {OpenBefore(lines, j) : j \in {i \in DOMAIN lines : ~IsBlockMarker(lines[i])}} \ {""}

RECURSIVE LinesOf(_, _, _)
LinesOf(lines, name, j) ==
    IF j > Len(lines) THEN <<>>
    ELSE IF ~IsBlockMarker(lines[j]) /\ OpenBefore(lines, j) = name
         THEN <<lines[j]>> \o LinesOf(lines, name, j + 1)
         ELSE LinesOf(lines, name, j + 1)

OwnBlocks(d, p) ==
    IF ~Exists(d, p) THEN EmptyMap
    ELSE [n \in BlockNames(d[p].lines) |-> LinesOf(d[p].lines, n, 1)]

\* C22: every template that is rendered receives, under each block name, the
\* lines between the Block and EndBlock markers of that name in the file at
\* its own path, and nothing from the file of another template.
C22_BlocksOfOwnFileOnly ==
    \A n \in DOMAIN wcalls :
        wcalls[n].received # <<>> =>
            wcalls[n].received[1] = OwnBlocks(disk0, wcalls[n].path)

\* A line that is a deviation marker.
IsDeviation(line) ==
    line.prefix \in CommentPrefixes /\ ToLower(line.cmd) = "deviation" /\ line.arg # ""

Deviates(d, p) == Exists(d, p) /\ \E j \in DOMAIN d[p].lines : IsDeviation(d[p].lines[j])

\* C23: when the file at the template's path has a deviation marker,
\* WriteTemplate returns a warning and no error, renders nothing and leaves
\* the file as it was, whatever else the file holds.
C23_DeviationOnlyWarns ==
    [][(Walking /\ Deviates(disk, WalkPath)) =>
          /\ werr' = NoBuilderError
          /\ wcalls'[Len(wcalls')].warnings = <<DeviationWarning(WalkPath)>>
          /\ wcalls'[Len(wcalls')].received = <<>>
          /\ disk' = disk]_vars

\* The processors the latest call of process invoked.
Invoked == {processed.invoked[i] : i \in DOMAIN processed.invoked}

\* Whether the runner holds processor p under each of its file extensions and
\* file names.
IsRegistered(r, p) ==
    /\ \A e \in p.FileExtensions : \E i \in DOMAIN r.fileExts[e] : r.fileExts[e][i] = p
    /\ \A n \in p.FileNames : \E i \in DOMAIN r.fileNames[n] : r.fileNames[n][i] = p

OfHash(s, h) == SelectSeq(s, LAMBDA x : hashModuleHookValue(x) = h)

Sorted == phase \in {"dirrep", "pass2", "done"}

\* C26: after the sort between the passes, the elements of a hook list that
\* have the same hash are in the order in which they were appended.
C26_EqualHashKeepsInsertionOrder ==
    Sorted =>
        \A k \in DOMAIN moduleHooks : \A v \in HookValues :
            OfHash(moduleHooks[k], hashModuleHookValue(v)) =
                OfHash(IF k \in DOMAIN appended THEN appended[k] ELSE <<>>,
                       hashModuleHookValue(v))

C28_RenderStartsFresh ==
    /\ (run = 2 /\ phase \in {"new", "parse", "pass1"} /\ idx <= 1 /\ calls = 0) =>
           (isFirstPass /\ moduleHooks = EmptyMap)
    /\ (run = 2 /\ phase = "done" /\ first.valid) =>
           (moduleHooks = first.moduleHooks /\ files = first.files)

\* The calls of WriteTemplate that rendered the template and returned no
\* error.
Rendered == {n \in DOMAIN wcalls : wcalls[n].outs # <<>> /\ wcalls[n].err = NoBuilderError}

\* The outputs of call n that writeFile wrote.
WrittenOutputs(n) == {wcalls[n].written[i].k : i \in DOMAIN wcalls[n].written}

\* C29: of the outputs one template rendered, every one that is neither
\* skipped nor deleted is written, wherever a skipped or deleted output is in
\* the list.
C29_SkipAffectsOneOutput ==
    \A n \in Rendered :
        \A k \in DOMAIN wcalls[n].outs :
            (~wcalls[n].outs[k].Skipped /\ ~wcalls[n].outs[k].Deleted) =>
                k \in WrittenOutputs(n)

\* Where output k of a template at path p is to be written: its own path if
\* it set one, the template's path otherwise, without the suffix .tpl.
Destination(p, o) == TrimSuffix(IF o.Path # <<>> THEN o.Path ELSE p, ".tpl")

\* C30: every output that is written is written to the destination its own
\* path gives it (the template's path without .tpl when it set none),
\* whatever paths the other outputs set; and two outputs written to one
\* destination set the same path.
C30_OwnPathOnly ==
    \A n \in Rendered :
        /\ \A i \in DOMAIN wcalls[n].written :
              wcalls[n].written[i].path =
                  Destination(wcalls[n].path, wcalls[n].outs[wcalls[n].written[i].k])
        /\ \A i \in DOMAIN wcalls[n].written : \A j \in DOMAIN wcalls[n].written :
              wcalls[n].written[i].path = wcalls[n].written[j].path =>
                  wcalls[n].outs[wcalls[n].written[i].k].Path =
                      wcalls[n].outs[wcalls[n].written[j].k].Path

====
